---- MODULE Spec2Model ----
(***************************************************************************)
(* Energy_logger: the two sampler scripts (main.py, main2.py) and the      *)
(* plotter (csv_graphs.py), as state machines.                             *)
(*                                                                         *)
(* Numbers are fixed-point integers.  Time is counted in clock units; the  *)
(* energy total carries one decimal digit more than the 4-decimal          *)
(* "Energy So Far" column of the CSV, so formatting a total rounds it.     *)
(***************************************************************************)
EXTENDS Integers, Sequences, FiniteSets, TLC

VARIABLES
    prog,                 \* which script runs: "main", "main2", "csv_graphs", "smart_read_csv"
    pc,                   \* the script's position
    now,                  \* time.time()
    end_time,             \* main.py: start_time + duration_minutes * 60
    interval_seconds,     \* main.py: the interval_seconds parameter
    total_energy_joules,  \* main.py: the running total
    reading,              \* the values the current tick has read so far
    csvfile,              \* the sampler's CSV file: handle state, buffer, disk
    stdout,               \* lines printed
    exc,                  \* the exception that left the script, "none" if none
    history,              \* the readings of the ticks processed so far
    tickStarts,           \* the clock at the start of each tick
    queryTimes,           \* how long each tick's query took
    args,                 \* csv_graphs.py: parsed command line
    file,                 \* csv_graphs.py: what --csv names
    df,                   \* csv_graphs.py: the loaded table
    attempts,             \* csv_graphs.py: plot kinds attempted, in order
    results,              \* csv_graphs.py: what each attempted plot did
    stderr,               \* csv_graphs.py: lines printed to stderr
    exit_code,            \* csv_graphs.py: process exit status, -1 while running
    column,               \* smart_read_csv: the cells of one column of the file
    dtype                 \* smart_read_csv: the column's dtype in the table

samplerVars == <<now, end_time, interval_seconds, total_energy_joules, reading,
                 csvfile, history, tickStarts, queryTimes>>
plotVars == <<args, file, df, attempts, results, stderr, exit_code>>
csvVars == <<column, dtype>>
vars == <<prog, pc, stdout, exc, samplerVars, plotVars, csvVars>>

(***************************************************************************)
(* Bounds of the model.                                                    *)
(***************************************************************************)
\* Longest run of main.py, in clock units.
MaxDuration == 5
\* Ticks after which the model stops following main2.py's endless loop.
MaxTicks2 == 2
\* Longest column handed to smart_read_csv.
MaxRows == 5
\* Widest table handed to the plotter.
MaxCols == 2

Intervals == {1, 2}
QueryDurations == {0, 1}

(***************************************************************************)
(* Helpers.                                                                *)
(***************************************************************************)
None == [kind |-> "None", val |-> 0]
Float(x) == [kind |-> "float", val |-> x]

\* f"{x:.4f}" of a total carrying 5 decimals: round to 4, ties to even.
Format4f(x) ==
    LET q == x \div 10
        r == x % 10
    IN  IF r < 5 THEN q
        ELSE IF r > 5 THEN q + 1
        ELSE IF q % 2 = 0 THEN q ELSE q + 1

(***************************************************************************)
(* The CSV file of a sampler: writes go to the handle's buffer, closing    *)
(* the handle (leaving the with block) flushes the buffer to disk.  The    *)
(* runs followed here are short enough for the buffer never to fill.       *)
(***************************************************************************)
NoFile == [state |-> "unopened", buf |-> <<>>, disk |-> <<>>]

\* open(filename, mode='w'): the file is created empty.
OpenW == [state |-> "open", buf |-> <<>>, disk |-> <<>>]

WriteRow(f, row) == [f EXCEPT !.buf = Append(f.buf, row)]

CloseNoFlush(f) == [f EXCEPT !.state = "closed", !.buf = <<>>]

\* the with block's exit, on normal completion and on an exception alike.
Close(f) == [state |-> "closed", buf |-> <<>>, disk |-> f.disk \o f.buf]

(***************************************************************************)
(* main.py                                                                 *)
(***************************************************************************)
Header == "Timestamp,Voltage (V),Current (A),Power (W),Energy So Far (Joules)"
Warning == "Warning: Voltage or current not available at this moment."
Summary == "Done! Total energy used"

\* One field of vcgencmd's output: the line is absent, has no '=', holds text
\* float() rejects, or holds a number.
Absent == [kind |-> "absent", val |-> 0]
NoEq == [kind |-> "noeq", val |-> 0]
Garbage == [kind |-> "garbage", val |-> 0]
Num(x) == [kind |-> "num", val |-> x]

\* What `vcgencmd pmic_read_adc` can do on one tick.
Outputs ==
    { [status |-> "ok", v |-> Num(2), a |-> Num(3)],
      [status |-> "ok", v |-> Num(2), a |-> Num(0)],
      [status |-> "ok", v |-> Num(2), a |-> Num(-1)],
      [status |-> "ok", v |-> Absent, a |-> Num(3)],
      [status |-> "ok", v |-> Num(2), a |-> Garbage],
      [status |-> "ok", v |-> NoEq, a |-> Num(3)],
      [status |-> "unavailable", v |-> Absent, a |-> Absent] }

\* float(line.split('=')[1]...) under try/except ValueError.
ParseField(f) ==
    CASE f.kind = "absent" -> [raised |-> "none", value |-> None]
      [] f.kind = "noeq" -> [raised |-> "IndexError", value |-> None]
      [] f.kind = "garbage" -> [raised |-> "none", value |-> None]
      [] f.kind = "num" -> [raised |-> "none", value |-> Float(f.val)]

read_voltage_current(out) ==
    IF out.status = "unavailable"
    THEN [raised |-> "FileNotFoundError", voltage |-> None, current |-> None]
    ELSE LET v == ParseField(out.v)
             a == ParseField(out.a)
         IN  IF v.raised # "none"
             THEN [raised |-> v.raised, voltage |-> None, current |-> None]
             ELSE IF a.raised # "none"
             THEN [raised |-> a.raised, voltage |-> None, current |-> None]
             ELSE [raised |-> "none", voltage |-> v.value, current |-> a.value]

NoReading == [voltage |-> None, current |-> None]

HasReading(r) == r.voltage # None /\ r.current # None

Power(r) == r.voltage.val * r.current.val

AccumulateOverwrite(total, power, interval) == power * interval

AccumulateNoInterval(total, power, interval) == total + power

\* total_energy_joules += power * interval_seconds
Accumulate(total, power, interval) == total + power * interval

LoopCondInclusive(t, endt) == t <= endt

\* while time.time() < end_time
LoopCond(t, endt) == t < endt

Row(t, r, total) ==
    [Timestamp |-> t, Voltage |-> r.voltage.val, Current |-> r.current.val,
     Power |-> Power(r), Energy |-> Format4f(total)]

InitSamplerCommon ==
    /\ stdout = <<>>
    /\ exc = "none"
    /\ csvfile = NoFile
    /\ history = <<>>
    /\ tickStarts = <<>>
    /\ queryTimes = <<>>
    /\ now = 0
    /\ total_energy_joules = 0
    /\ args = "unused" /\ file = "unused" /\ df = "unused"
    /\ attempts = <<>> /\ results = <<>> /\ stderr = <<>> /\ exit_code = -1
    /\ column = <<>> /\ dtype = "unused"

\* measure_energy_to_csv up to the with statement.
InitMain ==
    /\ prog = "main"
    /\ pc = "open"
    /\ interval_seconds \in Intervals
    /\ end_time \in 1..MaxDuration
    /\ reading = NoReading
    /\ InitSamplerCommon

MainOpen ==
    /\ prog = "main" /\ pc = "open"
    /\ csvfile' = WriteRow(OpenW, Header)
    /\ pc' = "loop"
    /\ UNCHANGED <<prog, stdout, exc, now, end_time, interval_seconds,
                   total_energy_joules, reading, history, tickStarts, queryTimes, plotVars, csvVars>>

MainLoopTest ==
    /\ prog = "main" /\ pc = "loop"
    /\ IF LoopCond(now, end_time)
       THEN /\ pc' = "query"
            /\ tickStarts' = Append(tickStarts, now)
            /\ UNCHANGED csvfile
       ELSE /\ pc' = "summary"
            /\ csvfile' = Close(csvfile)
            /\ UNCHANGED tickStarts
    /\ UNCHANGED <<prog, stdout, exc, now, end_time, interval_seconds,
                   total_energy_joules, reading, history, queryTimes, plotVars, csvVars>>

MainQuery ==
    /\ prog = "main" /\ pc = "query"
    /\ \E out \in Outputs, d \in QueryDurations :
         LET r == read_voltage_current(out)
         IN  /\ now' = now + d
             /\ queryTimes' = Append(queryTimes, d)
             /\ IF r.raised # "none"
                THEN /\ exc' = r.raised
                     /\ csvfile' = Close(csvfile)
                     /\ pc' = "crashed"
                     /\ UNCHANGED reading
                ELSE /\ reading' = [voltage |-> r.voltage, current |-> r.current]
                     /\ pc' = "process"
                     /\ UNCHANGED <<exc, csvfile>>
    /\ UNCHANGED <<prog, stdout, end_time, interval_seconds,
                   total_energy_joules, history, tickStarts, plotVars, csvVars>>

MainProcess ==
    /\ prog = "main" /\ pc = "process"
    /\ IF HasReading(reading)
       THEN LET total == Accumulate(total_energy_joules, Power(reading), interval_seconds)
            IN  /\ total_energy_joules' = total
                /\ csvfile' = WriteRow(csvfile, Row(now, reading, total))
                /\ UNCHANGED stdout
       ELSE /\ stdout' = Append(stdout, Warning)
            /\ UNCHANGED <<total_energy_joules, csvfile>>
    /\ history' = Append(history, reading)
    /\ pc' = "sleep"
    /\ UNCHANGED <<prog, exc, now, end_time, interval_seconds, reading,
                   tickStarts, queryTimes, plotVars, csvVars>>

MainSleep ==
    /\ prog = "main" /\ pc = "sleep"
    /\ now' = now + interval_seconds
    /\ pc' = "loop"
    /\ UNCHANGED <<prog, stdout, exc, end_time, interval_seconds, total_energy_joules,
                   reading, csvfile, history, tickStarts, queryTimes, plotVars, csvVars>>

MainSummary ==
    /\ prog = "main" /\ pc = "summary"
    /\ stdout' = Append(stdout, Summary)
    /\ pc' = "done"
    /\ UNCHANGED <<prog, exc, samplerVars, plotVars, csvVars>>

\* Ctrl+C inside the with block: nothing catches it, the with block closes the file.
MainInterrupt ==
    /\ prog = "main" /\ pc \in {"loop", "query", "process", "sleep"}
    /\ exc' = "KeyboardInterrupt"
    /\ csvfile' = Close(csvfile)
    /\ pc' = "crashed"
    /\ UNCHANGED <<prog, stdout, now, end_time, interval_seconds, total_energy_joules,
                   reading, history, tickStarts, queryTimes, plotVars, csvVars>>

MainStep ==
    \/ MainOpen
    \/ MainLoopTest
    \/ MainQuery
    \/ MainProcess
    \/ MainSleep
    \/ MainSummary

NextMain == MainStep \/ MainInterrupt

SpecMain == InitMain /\ [][NextMain]_vars

\* The interpreter keeps running the script; the user need not press Ctrl+C.
FairMain == SpecMain /\ WF_vars(MainStep)

(***************************************************************************)
(* main2.py                                                                *)
(***************************************************************************)
Header2 == "Timestamp,Pi_Temp_C,Pi_Voltage_V,Sig_Voltage_V,Sig_Current_A,Power_W"
Stopped == "Measurement stopped by user."

NoReading2 == [temp_c |-> None, pi_volt |-> None, sig_volt |-> None, sig_curr |-> None]

\* subprocess.check_output(['vcgencmd', ...]) followed by float(...): the command
\* is missing, exits non-zero, prints text float() rejects, or prints a number.
VcgencmdOutcomes == {"ok", "FileNotFoundError", "CalledProcessError", "ValueError"}

\* sig.write('MEAS:...?') followed by float(sig.read()).
VisaOutcomes == {"ok", "VisaIOError", "ValueError"}

SigCurrents == {1, 2}

Row2(t, r) ==
    [Timestamp |-> t, Pi_Temp_C |-> r.temp_c.val, Pi_Voltage_V |-> r.pi_volt.val,
     Sig_Voltage_V |-> r.sig_volt.val, Sig_Current_A |-> r.sig_curr.val,
     Power_W |-> r.sig_volt.val * r.sig_curr.val]

LoopPcs2 == {"temp", "volt", "sig_volt", "sig_curr", "write", "sleep"}

\* The script up to the with statement: the instrument is open.
InitMain2 ==
    /\ prog = "main2"
    /\ pc = "open"
    /\ interval_seconds = 1
    /\ end_time = 0
    /\ reading = NoReading2
    /\ InitSamplerCommon

Main2Open ==
    /\ prog = "main2" /\ pc = "open"
    /\ csvfile' = WriteRow(OpenW, Header2)
    /\ stdout' = Append(stdout, "Starting measurement loop (2 Hz)... Press Ctrl+C to stop.")
    /\ pc' = "temp"
    /\ UNCHANGED <<prog, exc, now, end_time, interval_seconds, total_energy_joules,
                   reading, history, tickStarts, queryTimes, plotVars, csvVars>>

\* An exception other than KeyboardInterrupt passes the except clause and
\* leaves the with block, which closes the file.
Raise2(e) ==
    /\ exc' = e
    /\ csvfile' = Close(csvfile)
    /\ pc' = "crashed"
    /\ UNCHANGED <<prog, stdout, now, end_time, interval_seconds, total_energy_joules,
                   reading, history, queryTimes, plotVars, csvVars>>

Query2(field, value, next) ==
    /\ reading' = [reading EXCEPT ![field] = Float(value)]
    /\ pc' = next
    /\ UNCHANGED <<prog, stdout, exc, now, end_time, interval_seconds,
                   total_energy_joules, csvfile, history, queryTimes, plotVars, csvVars>>

Main2Temp ==
    /\ prog = "main2" /\ pc = "temp"
    /\ Len(tickStarts) < MaxTicks2
    /\ tickStarts' = Append(tickStarts, now)
    /\ \E o \in VcgencmdOutcomes :
         IF o = "ok" THEN Query2("temp_c", 45, "volt") ELSE Raise2(o)

Main2Volt ==
    /\ prog = "main2" /\ pc = "volt"
    /\ UNCHANGED tickStarts
    /\ \E o \in VcgencmdOutcomes :
         IF o = "ok" THEN Query2("pi_volt", 1, "sig_volt") ELSE Raise2(o)

Main2SigVolt ==
    /\ prog = "main2" /\ pc = "sig_volt"
    /\ UNCHANGED tickStarts
    /\ \E o \in VisaOutcomes :
         IF o = "ok" THEN Query2("sig_volt", 5, "sig_curr") ELSE Raise2(o)

Main2SigCurr ==
    /\ prog = "main2" /\ pc = "sig_curr"
    /\ UNCHANGED tickStarts
    /\ \E o \in VisaOutcomes, c \in SigCurrents :
         IF o = "ok" THEN Query2("sig_curr", c, "write") ELSE Raise2(o)

Main2Write ==
    /\ prog = "main2" /\ pc = "write"
    /\ csvfile' = WriteRow(csvfile, Row2(tickStarts[Len(tickStarts)], reading))
    /\ stdout' = Append(stdout, "Temp | Pi Volt | Sig Volt | Curr | Power")
    /\ history' = Append(history, reading)
    /\ pc' = "sleep"
    /\ UNCHANGED <<prog, exc, now, end_time, interval_seconds, total_energy_joules,
                   reading, tickStarts, queryTimes, plotVars, csvVars>>

\* time.sleep(0.5): the clock of main2.py counts half seconds.
Main2Sleep ==
    /\ prog = "main2" /\ pc = "sleep"
    /\ now' = now + 1
    /\ pc' = "temp"
    /\ UNCHANGED <<prog, stdout, exc, end_time, interval_seconds, total_energy_joules,
                   reading, csvfile, history, tickStarts, queryTimes, plotVars, csvVars>>

\* Ctrl+C inside the try: except KeyboardInterrupt prints, then the with block ends.
Main2Interrupt ==
    /\ prog = "main2" /\ pc \in LoopPcs2
    /\ stdout' = Append(stdout, Stopped)
    /\ csvfile' = Close(csvfile)
    /\ pc' = "done"
    /\ UNCHANGED <<prog, exc, now, end_time, interval_seconds, total_energy_joules,
                   reading, history, tickStarts, queryTimes, plotVars, csvVars>>

NextMain2 ==
    \/ Main2Open
    \/ Main2Temp
    \/ Main2Volt
    \/ Main2SigVolt
    \/ Main2SigCurr
    \/ Main2Write
    \/ Main2Sleep
    \/ Main2Interrupt

InitSampler == InitMain \/ InitMain2

NextSampler == NextMain \/ NextMain2

SpecSampler == InitSampler /\ [][NextSampler]_vars

(***************************************************************************)
(* Claims about the samplers.                                              *)
(***************************************************************************)
Succeeded(r) == r.voltage.kind = "float" /\ r.current.kind = "float"

RECURSIVE ExpectedEnergy(_, _)
ExpectedEnergy(h, interval) ==
    IF h = <<>> THEN 0
    ELSE LET r == h[Len(h)]
             rest == ExpectedEnergy(SubSeq(h, 1, Len(h) - 1), interval)
         IN  IF Succeeded(r)
             THEN rest + r.voltage.val * r.current.val * interval
             ELSE rest

\* C1: in measure_energy_to_csv the running total after k ticks is the sum of
\* voltage_i * current_i * interval_seconds over the ticks among the first k that
\* had a reading; it is 0 before the first tick and a tick without a reading
\* leaves it unchanged.
C1_EnergyIsSumOfSuccessfulTicks ==
    prog = "main" => total_energy_joules = ExpectedEnergy(history, interval_seconds)

C1_Witness ==
    /\ prog = "main"
    /\ Len(history) >= 3
    /\ interval_seconds = 2
    /\ \E i \in 1..Len(history) : ~Succeeded(history[i])
    /\ \E i, j \in 1..Len(history) :
         i # j /\ Succeeded(history[i]) /\ Succeeded(history[j])
    /\ total_energy_joules > 0

DataRows(f) == Tail(f.disk \o f.buf)

ColumnMonotone(f) ==
    \A i, j \in 1..Len(DataRows(f)) :
        i < j => DataRows(f)[i].Energy <= DataRows(f)[j].Energy

AllNonNegative(h) ==
    \A i \in 1..Len(h) :
        Succeeded(h[i]) => h[i].voltage.val * h[i].current.val >= 0

\* C2 as stated: whatever values the readings parse to, the total never
\* decreases from one tick to the next and neither does the CSV's energy column.
C2_EnergyNeverDecreases ==
    prog = "main" =>
        /\ csvfile.state # "unopened" => ColumnMonotone(csvfile)
        /\ \A i \in 1..Len(history) :
             ExpectedEnergy(SubSeq(history, 1, i - 1), interval_seconds)
                 <= ExpectedEnergy(SubSeq(history, 1, i), interval_seconds)

\* C2, amended: while every reading so far has voltage * current >= 0, a tick
\* never lowers the total, and the CSV's energy column never decreases.
C2_NonNegativePowerMonotone ==
    /\ [][(prog = "main" /\ AllNonNegative(history'))
            => total_energy_joules' >= total_energy_joules]_vars
    /\ []((prog = "main" /\ csvfile.state # "unopened" /\ AllNonNegative(history))
            => ColumnMonotone(csvfile))

C2_Witness ==
    /\ prog = "main"
    /\ AllNonNegative(history)
    /\ Len(history) >= 3
    /\ Len(DataRows(csvfile)) >= 3
    /\ DataRows(csvfile)[1].Energy < DataRows(csvfile)[3].Energy
    /\ \E i \in 1..2 : DataRows(csvfile)[i].Energy = DataRows(csvfile)[i + 1].Energy

QueryFailures ==
    {"FileNotFoundError", "CalledProcessError", "ValueError", "VisaIOError", "IndexError"}

\* C3: in every sampler script a failed query (command or instrument unavailable,
\* output without the expected field, text that is no number) never ends the loop:
\* no such failure leaves the script as an exception.
C3_FailedQueryNeverEndsLoop == ~(pc = "crashed" /\ exc \in QueryFailures)

Printed(line) == \E i \in 1..Len(stdout) : stdout[i] = line

\* C4: measure_energy_to_csv ends: no tick starts at or after end_time, the
\* summary line is printed only once the CSV file is closed, and with the clock
\* advancing and every query returning the loop is eventually left.
C4_TerminatesAtDuration ==
    /\ [](/\ \A i \in 1..Len(tickStarts) : tickStarts[i] < end_time
          /\ Printed(Summary) => csvfile.state = "closed"
          /\ pc = "done" => (Printed(Summary) /\ now >= end_time))
    /\ <>(pc = "done" \/ exc # "none")

C4_Witness ==
    /\ prog = "main" /\ pc = "done"
    /\ Len(tickStarts) >= 2
    /\ tickStarts[Len(tickStarts)] = end_time - 1
    /\ csvfile.state = "closed" /\ Printed(Summary)

Interrupted == exc = "KeyboardInterrupt" \/ Printed(Stopped)

HeaderOf(p) == IF p = "main" THEN Header ELSE Header2

RowsWritten(p, h) ==
    IF p = "main" THEN Cardinality({i \in 1..Len(h) : Succeeded(h[i])}) ELSE Len(h)

FilePreserved ==
    /\ csvfile.state = "closed"
    /\ csvfile.disk # <<>>
    /\ csvfile.disk[1] = HeaderOf(prog)
    /\ Len(csvfile.disk) = 1 + RowsWritten(prog, history)
    /\ prog = "main2" =>
         \A i \in 1..Len(history) :
             csvfile.disk[i + 1] = Row2(tickStarts[i], history[i])
    /\ (prog = "main" /\ Len(csvfile.disk) > 1) =>
         csvfile.disk[Len(csvfile.disk)].Energy = Format4f(total_energy_joules)

\* C5 as stated: in main.py and main2.py alike an interruption of the loop is
\* caught, the file is closed and holds the header and every row written.
C5_InterruptCaughtFilePreserved ==
    Interrupted => (exc = "none" /\ FilePreserved)

\* C5, amended: an interruption of the loop leaves the file closed, holding the
\* header and every row written by the completed ticks, in both scripts; it is
\* caught (and the stop message printed) in main2.py only, while in main.py it
\* leaves measure_energy_to_csv uncaught, and no summary line is printed.
C5_InterruptFilePreserved ==
    Interrupted =>
        /\ FilePreserved
        /\ prog = "main2" => (exc = "none" /\ pc = "done" /\ stdout[Len(stdout)] = Stopped)
        /\ prog = "main" => (exc = "KeyboardInterrupt" /\ pc = "crashed" /\ ~Printed(Summary))

C5_Witness ==
    /\ Interrupted
    /\ Len(csvfile.disk) >= 3
    /\ prog = "main" => \E i \in 1..Len(history) : ~Succeeded(history[i])

\* C10: the sampler keeps a fixed cadence: when every query takes less than the
\* interval, consecutive ticks start exactly one interval apart, and a run of
\* duration D with interval I executes D / I ticks.
C10_FixedCadence ==
    (prog = "main" /\ \A i \in 1..Len(queryTimes) : queryTimes[i] < interval_seconds)
        => /\ \A i \in 1..(Len(tickStarts) - 1) :
                tickStarts[i + 1] - tickStarts[i] = interval_seconds
           /\ (pc = "done" /\ end_time % interval_seconds = 0)
                => Len(tickStarts) * interval_seconds = end_time

(***************************************************************************)
(* csv_graphs.py: the plot functions.  A table is known by how many        *)
(* columns of each kind it has after loading; a column is named by its     *)
(* kind and its rank among the columns of that kind.                       *)
(***************************************************************************)
Col(kind, idx) == [kind |-> kind, idx |-> idx]

NoCol == Col("None", 0)

Columns(kind, n) == [i \in 1..n |-> Col(kind, i)]

\* df.select_dtypes(include=[np.number]).columns.tolist()
numeric_cols(t) == Columns("numeric", t.numeric)

\* df.select_dtypes(include=["datetime64[ns]", "datetimetz"]).columns.tolist()
datetime_cols(t) == Columns("datetime", t.datetime)

InTable(t, col) == col.kind \in DOMAIN t /\ col.idx \in 1..t[col.kind]

\* What the world does to one plot call: the plotting library or the file
\* system may raise on it.
Envs == {"ok", "plot_raises", "save_raises"}

NoEffect == [raised |-> FALSE, error |-> "", figures |-> 0, saved |-> 0, mkdir |-> FALSE]

Raised(e, msg) == [e EXCEPT !.raised = TRUE, !.error = msg]

\* fig = plt.figure()
NewFigure(e) == [e EXCEPT !.figures = @ + 1]

\* maybe_save: nothing without a save directory; else the directory is made,
\* then the figure saved.
maybe_save(e, save_dir, env) ==
    IF ~save_dir THEN e
    ELSE IF env = "save_raises" THEN Raised([e EXCEPT !.mkdir = TRUE], "OSError")
    ELSE [e EXCEPT !.mkdir = TRUE, !.saved = @ + 1]

\* One figure: created, drawn (the library raises on a column it cannot draw),
\* saved.
OneFigure(e, drawable, save_dir, env) ==
    LET fig == NewFigure(e)
    IN  IF ~drawable \/ env = "plot_raises"
        THEN Raised(fig, "plotting failed")
        ELSE maybe_save(fig, save_dir, env)

RECURSIVE EachColumn(_, _, _, _, _, _)
EachColumn(e, t, x, cols, save_dir, env) ==
    IF cols = <<>> \/ e.raised THEN e
    ELSE EachColumn(
             OneFigure(e, InTable(t, x) /\ InTable(t, Head(cols)) /\ Head(cols).kind = "numeric",
                       save_dir, env),
             t, x, Tail(cols), save_dir, env)

\* y_cols = <<>> stands for y_cols=None: main never passes an empty list.
line_over_time(t, time_col, y_cols, save_dir, env) ==
    LET dcols == datetime_cols(t)
    IN  IF time_col = NoCol /\ dcols = <<>>
        THEN Raised(NoEffect, "No datetime-like column found. Specify --time-col.")
        ELSE LET x == IF time_col = NoCol THEN dcols[1] ELSE time_col
                 ys == IF y_cols = <<>> THEN numeric_cols(t) ELSE y_cols
             IN  IF ys = <<>>
                 THEN Raised(NoEffect, "No numeric columns to plot.")
                 ELSE EachColumn(NoEffect, t, x, ys, save_dir, env)

histograms_late_check(t, save_dir, env) ==
    LET nums == numeric_cols(t)
    IN  IF nums = <<>>
        THEN Raised(maybe_save(NewFigure(NoEffect), save_dir, env),
                    "No numeric columns found for histograms.")
        ELSE EachColumn(NoEffect, t, nums[1], nums, save_dir, env)

histograms(t, save_dir, env) ==
    LET nums == numeric_cols(t)
    IN  IF nums = <<>>
        THEN Raised(NoEffect, "No numeric columns found for histograms.")
        ELSE EachColumn(NoEffect, t, nums[1], nums, save_dir, env)

scatter(t, x, y, save_dir, env) ==
    OneFigure(NoEffect,
              InTable(t, x) /\ InTable(t, y) /\ x.kind = "numeric" /\ y.kind = "numeric",
              save_dir, env)

\* df[[by_col, value_col]] raises on a missing column before any figure exists.
bar_top_n(t, by_col, value_col, save_dir, env) ==
    IF ~(InTable(t, by_col) /\ InTable(t, value_col))
    THEN Raised(NoEffect, "KeyError")
    ELSE OneFigure(NoEffect, value_col.kind = "numeric", save_dir, env)

correlation_heatmap(t, save_dir, env) ==
    IF t.numeric < 2
    THEN Raised(NoEffect, "Need at least two numeric columns for a correlation heatmap.")
    ELSE OneFigure(NoEffect, TRUE, save_dir, env)

(***************************************************************************)
(* csv_graphs.py: main.                                                    *)
(***************************************************************************)
ArgSets ==
    [skip_line : BOOLEAN, skip_hist : BOOLEAN, skip_heatmap : BOOLEAN,
     time_col : {NoCol, Col("datetime", 1)},
     y_cols : {<<>>, <<Col("numeric", 1)>>, <<Col("object", 1)>>},
     scatter_x : {NoCol, Col("numeric", 1)},
     scatter_y : {NoCol, Col("numeric", 2)},
     top_by : {NoCol, Col("object", 1)},
     top_val : {NoCol, Col("numeric", 1)},
     save_dir : BOOLEAN]

Tables == [datetime : 0..1, numeric : 0..MaxCols, object : 0..1]

NoTable == [datetime |-> 0, numeric |-> 0, object |-> 0]

\* What --csv names: nothing, a file pd.read_csv raises on, or a CSV file.
Files ==
    {[exists |-> FALSE, parses |-> FALSE, table |-> NoTable],
     [exists |-> TRUE, parses |-> FALSE, table |-> NoTable]}
    \cup {[exists |-> TRUE, parses |-> TRUE, table |-> t] : t \in Tables}

csv_exists_unchecked(f) == TRUE

\* csv_path.exists()
csv_exists(f) == f.exists

NotFound == "ERROR: CSV file not found"
Loaded == "Loaded"

SkippedMsg(kind) == "[" \o kind \o "] skipped"

\* main after parse_args.
InitPlot ==
    /\ prog = "csv_graphs"
    /\ pc = "check"
    /\ args \in ArgSets
    /\ file \in Files
    /\ df = NoTable
    /\ attempts = <<>>
    /\ results = <<>>
    /\ stdout = <<>>
    /\ stderr = <<>>
    /\ exc = "none"
    /\ exit_code = -1
    /\ now = 0 /\ end_time = 0 /\ interval_seconds = 0 /\ total_energy_joules = 0
    /\ reading = NoReading /\ csvfile = NoFile
    /\ history = <<>> /\ tickStarts = <<>> /\ queryTimes = <<>>
    /\ column = <<>> /\ dtype = "unused"

\* if not csv_path.exists(): print(..., file=sys.stderr); sys.exit(1)
PlotCheck ==
    /\ prog = "csv_graphs" /\ pc = "check"
    /\ IF ~csv_exists(file)
       THEN /\ stderr' = Append(stderr, NotFound)
            /\ exit_code' = 1
            /\ pc' = "exit"
       ELSE /\ pc' = "load"
            /\ UNCHANGED <<stderr, exit_code>>
    /\ UNCHANGED <<prog, stdout, exc, samplerVars, csvVars, args, file, df, attempts, results>>

\* df = smart_read_csv(...), outside any try: what pd.read_csv raises ends the
\* process with a traceback and status 1.
PlotLoad ==
    /\ prog = "csv_graphs" /\ pc = "load"
    /\ IF ~file.parses
       THEN /\ exc' = "ParserError"
            /\ stderr' = Append(stderr, "Traceback")
            /\ exit_code' = 1
            /\ pc' = "exit"
            /\ UNCHANGED <<df, stdout>>
       ELSE /\ df' = file.table
            /\ stdout' = Append(stdout, Loaded)
            /\ pc' = "line"
            /\ UNCHANGED <<exc, stderr, exit_code>>
    /\ UNCHANGED <<prog, samplerVars, csvVars, args, file, attempts, results>>

AfterPlotPropagates(effect, next) == IF effect.raised THEN "exit" ELSE next

\* try: ... except Exception as e: print(f"[kind] skipped: {e}")
AfterPlot(effect, next) == next

Attempt(kind, effect, next) ==
    /\ attempts' = Append(attempts, kind)
    /\ results' = Append(results, effect)
    /\ stdout' = IF effect.raised THEN Append(stdout, SkippedMsg(kind)) ELSE stdout
    /\ pc' = AfterPlot(effect, next)

Pass(next) ==
    /\ pc' = next
    /\ UNCHANGED <<attempts, results, stdout>>

PlotLine ==
    /\ prog = "csv_graphs" /\ pc = "line"
    /\ IF ~args.skip_line
       THEN \E env \in Envs :
                Attempt("line_over_time",
                        line_over_time(df, args.time_col, args.y_cols, args.save_dir, env),
                        "hist")
       ELSE Pass("hist")
    /\ UNCHANGED <<prog, exc, samplerVars, csvVars, args, file, df, stderr, exit_code>>

PlotHist ==
    /\ prog = "csv_graphs" /\ pc = "hist"
    /\ IF ~args.skip_hist
       THEN \E env \in Envs :
                Attempt("histograms", histograms(df, args.save_dir, env), "scatter")
       ELSE Pass("scatter")
    /\ UNCHANGED <<prog, exc, samplerVars, csvVars, args, file, df, stderr, exit_code>>

PlotScatter ==
    /\ prog = "csv_graphs" /\ pc = "scatter"
    /\ IF args.scatter_x # NoCol /\ args.scatter_y # NoCol
       THEN \E env \in Envs :
                Attempt("scatter",
                        scatter(df, args.scatter_x, args.scatter_y, args.save_dir, env),
                        "bar")
       ELSE Pass("bar")
    /\ UNCHANGED <<prog, exc, samplerVars, csvVars, args, file, df, stderr, exit_code>>

PlotBar ==
    /\ prog = "csv_graphs" /\ pc = "bar"
    /\ IF args.top_by # NoCol /\ args.top_val # NoCol
       THEN \E env \in Envs :
                Attempt("bar_top_n",
                        bar_top_n(df, args.top_by, args.top_val, args.save_dir, env),
                        "heatmap")
       ELSE Pass("heatmap")
    /\ UNCHANGED <<prog, exc, samplerVars, csvVars, args, file, df, stderr, exit_code>>

PlotHeatmap ==
    /\ prog = "csv_graphs" /\ pc = "heatmap"
    /\ IF ~args.skip_heatmap
       THEN \E env \in Envs :
                Attempt("correlation_heatmap",
                        correlation_heatmap(df, args.save_dir, env), "end")
       ELSE Pass("end")
    /\ UNCHANGED <<prog, exc, samplerVars, csvVars, args, file, df, stderr, exit_code>>

\* main returns: the interpreter exits with status 0.
PlotEnd ==
    /\ prog = "csv_graphs" /\ pc = "end"
    /\ exit_code' = 0
    /\ pc' = "exit"
    /\ UNCHANGED <<prog, stdout, exc, samplerVars, csvVars, args, file, df, attempts, results, stderr>>

NextPlot ==
    \/ PlotCheck
    \/ PlotLoad
    \/ PlotLine
    \/ PlotHist
    \/ PlotScatter
    \/ PlotBar
    \/ PlotHeatmap
    \/ PlotEnd

SpecPlot == InitPlot /\ [][NextPlot]_vars

(***************************************************************************)
(* Claims about the plotter.                                               *)
(***************************************************************************)
PlotOrder == <<"line_over_time", "histograms", "scatter", "bar_top_n", "correlation_heatmap">>

Wanted(a, kind) ==
    CASE kind = "line_over_time" -> ~a.skip_line
      [] kind = "histograms" -> ~a.skip_hist
      [] kind = "scatter" -> a.scatter_x # NoCol /\ a.scatter_y # NoCol
      [] kind = "bar_top_n" -> a.top_by # NoCol /\ a.top_val # NoCol
      [] kind = "correlation_heatmap" -> ~a.skip_heatmap

Requested(a) == SelectSeq(PlotOrder, LAMBDA k : Wanted(a, k))

Count(seq, x) == Cardinality({i \in 1..Len(seq) : seq[i] = x})

\* C6: once the CSV is loaded, main attempts every requested plot kind exactly
\* once, in the order line, histograms, scatter, bar, heatmap, whichever of them
\* raise; each failure prints one "[kind] skipped" line.
C6_EveryRequestedPlotAttempted ==
    (prog = "csv_graphs" /\ pc = "exit" /\ Count(stdout, Loaded) = 1) =>
        /\ attempts = Requested(args)
        /\ \A i \in 1..Len(attempts) :
             Count(stdout, SkippedMsg(attempts[i])) = IF results[i].raised THEN 1 ELSE 0
        /\ \A i \in 1..Len(PlotOrder) :
             Count(attempts, PlotOrder[i]) = 0 => Count(stdout, SkippedMsg(PlotOrder[i])) = 0

C6_Witness ==
    /\ prog = "csv_graphs" /\ pc = "exit"
    /\ Len(attempts) = 5
    /\ results[1].raised /\ ~results[2].raised /\ results[3].raised
    /\ results[4].raised /\ ~results[5].raised

\* C7 as stated: exit code 1 with a message on stderr, nothing loaded and no plot
\* attempted, if the --csv path does not exist; exit code 0 in every other case.
C7_ExitOneOnlyIfMissing ==
    (prog = "csv_graphs" /\ pc = "exit") =>
        IF ~file.exists
        THEN exit_code = 1 /\ stderr = <<NotFound>> /\ stdout = <<>> /\ attempts = <<>>
        ELSE exit_code = 0

\* C7, amended: exit code 1 with a message on stderr, nothing loaded and no plot
\* attempted, if the --csv path does not exist; exit code 0 if the file exists and
\* loads, whichever plots fail; if the file exists and pd.read_csv raises on it,
\* the exception leaves main and the process exits with status 1 before any plot.
C7_ExitCodes ==
    (prog = "csv_graphs" /\ pc = "exit") =>
        CASE ~file.exists ->
                /\ exit_code = 1 /\ exc = "none"
                /\ stderr = <<NotFound>> /\ stdout = <<>> /\ attempts = <<>>
          [] file.exists /\ file.parses ->
                exit_code = 0 /\ exc = "none" /\ stderr = <<>>
          [] file.exists /\ ~file.parses ->
                exit_code = 1 /\ exc # "none" /\ stdout = <<>> /\ attempts = <<>>

C7_Witness ==
    /\ prog = "csv_graphs" /\ pc = "exit"
    /\ exit_code = 0
    /\ Len(attempts) >= 3
    /\ \A i \in 1..Len(attempts) : results[i].raised

NoSideEffect(e) == e.raised /\ e.figures = 0 /\ e.saved = 0 /\ ~e.mkdir

Cells == {"date", "text", "empty"}

RECURSIVE SeqsUpTo(_)
SeqsUpTo(n) ==
    IF n = 0 THEN {<<>>}
    ELSE LET shorter == SeqsUpTo(n - 1)
         IN  shorter \cup {Append(c, x) : c \in {d \in shorter : Len(d) = n - 1}, x \in Cells}

\* ok_ratio >= 0.8, in tenths.
OkRatioTenths == 8

\* pd.read_csv: empty cells are NaN; a column of NaN alone is float64, a column
\* holding strings is object.
read_csv_dtype(cells) ==
    IF \A i \in 1..Len(cells) : cells[i] = "empty" THEN "float64" ELSE "object"

\* pd.to_datetime(df[col], errors='raise'): raises on the first value that is
\* no date; NaN becomes NaT.
to_datetime(cells) ==
    IF \E i \in 1..Len(cells) : cells[i] = "text"
    THEN [raised |-> TRUE, values |-> <<>>]
    ELSE [raised |-> FALSE,
          values |-> [i \in 1..Len(cells) |-> IF cells[i] = "date" THEN "Timestamp" ELSE "NaT"]]

\* s.notna().mean() >= 0.8 if len(s) else 0 >= 0.8
ok_ratio_passes(values) ==
    /\ Len(values) > 0
    /\ 10 * Cardinality({i \in 1..Len(values) : values[i] # "NaT"})
         >= OkRatioTenths * Len(values)

\* The loop body of smart_read_csv for one column: the dtype the column ends with.
smart_read_csv(cells) ==
    LET before == read_csv_dtype(cells)
    IN  IF before # "object" THEN before
        ELSE LET s == to_datetime(cells)
             IN  IF s.raised THEN before
                 ELSE IF ok_ratio_passes(s.values) THEN "datetime64[ns]"
                 ELSE before

InitCsv ==
    /\ prog = "smart_read_csv"
    /\ pc = "read"
    /\ column \in {c \in SeqsUpTo(MaxRows) : c # <<>>}
    /\ dtype = "unread"
    /\ stdout = <<>> /\ exc = "none"
    /\ now = 0 /\ end_time = 0 /\ interval_seconds = 0 /\ total_energy_joules = 0
    /\ reading = NoReading /\ csvfile = NoFile
    /\ history = <<>> /\ tickStarts = <<>> /\ queryTimes = <<>>
    /\ args = "unused" /\ file = "unused" /\ df = "unused"
    /\ attempts = <<>> /\ results = <<>> /\ stderr = <<>> /\ exit_code = -1

SmartReadCsv ==
    /\ prog = "smart_read_csv" /\ pc = "read"
    /\ dtype' = smart_read_csv(column)
    /\ pc' = "done"
    /\ UNCHANGED <<prog, stdout, exc, samplerVars, plotVars, column>>

NextCsv == SmartReadCsv

SpecCsv == InitCsv /\ [][NextCsv]_vars

Parseable(cells) == Cardinality({i \in 1..Len(cells) : cells[i] = "date"})

Unparseable(cells) == Cardinality({i \in 1..Len(cells) : cells[i] = "text"})

\* C8: smart_read_csv makes a non-numeric column datetime if and only if at least
\* 80% of its non-empty values parse as dates, empty values not counted.
C8_DatetimeIffEightyPercent ==
    (prog = "smart_read_csv" /\ pc = "done" /\ read_csv_dtype(column) = "object") =>
        (dtype = "datetime64[ns]"
            <=> 10 * Parseable(column) >= 8 * (Parseable(column) + Unparseable(column)))

====
